---- MODULE Spec2Model ----
(***************************************************************************)
(* A model of usrse/main/client.py: Client.get, the normalisation done by  *)
(* Result.__init__ / ensure_complete, the column width budget, the column  *)
(* and row derivation, the two table renderers and the JSON export.        *)
(*                                                                         *)
(* A string is a sequence of characters.  A record (a Python dict, which   *)
(* keeps insertion order) is a sequence of <<key, value>> pairs with       *)
(* pairwise different keys.  An operation that raises leaves the name of   *)
(* the exception in its outcome.                                           *)
(***************************************************************************)
EXTENDS Integers, Sequences, FiniteSets, TLC

\* pc:         "start" before Client.get, "ready" once it has returned a
\*             Result, "exited" when it ended in an error, "done" after the
\*             one operation a run calls on the Result
\* endpoint:   the Result's endpoint descriptor
\* ordered:    the fetched records as Endpoint.order returned them, before
\*             ensure_complete filled them
\* data:       Result.data
\* max_widths: Result.max_widths
\* file:       the file save writes to
\* out:        the outcome of the last call: what it returned, yielded or
\*             built, and the exception that ended it ("none" if it returned)
VARIABLES pc, endpoint, ordered, data, max_widths, file, out

vars == <<pc, endpoint, ordered, data, max_widths, file, out>>

----------------------------------------------------------------------------
(* Bounds of the model *)

\* the longest string of a fetched field
MaxLen == 1
\* the largest number of fetched records
MaxRecs == 2
\* the largest number of key/value pairs in one fetched body
MaxCells == 3
\* the widest small terminal (the 120 column fallback is always included)
MaxWidth == 2
\* the largest explicit row limit
MaxLimit == 1
\* the number of palette colours the model distinguishes
NumColors == 3

----------------------------------------------------------------------------
(* Program constants *)

DefaultWidth == 120
DefaultLimit == 25

Ellipsis == <<".", ".", ".">>
EmptyStr == <<>>

----------------------------------------------------------------------------
(* Generic helpers *)

Range(s) == {s[i] : i \in DOMAIN s}

Min(a, b) == IF a < b THEN a ELSE b
Max(a, b) == IF a > b THEN a ELSE b

\* all the orders in which the elements of S can be iterated
Orders(S) == {s \in [1..Cardinality(S) -> S] : Range(s) = S}

\* the permutations of a sequence
Permutations_(s) == {[i \in DOMAIN s |-> s[p[i]]] : p \in Orders(DOMAIN s)}

\* Python's dict: keys(), `in`, and d[k]
Keys(entry) == {entry[i][1] : i \in DOMAIN entry}
Get_(entry, k) == entry[CHOOSE i \in DOMAIN entry : entry[i][1] = k][2]
KeyList(entry) == [i \in DOMAIN entry |-> entry[i][1]]

\* Python's int(a / b) for b # 0: the quotient truncated towards zero
IntDiv(a, b) ==
    LET abs(x) == IF x < 0 THEN 0 - x ELSE x
        q == abs(a) \div abs(b)
    IN IF (a < 0) = (b < 0) THEN q ELSE 0 - q

\* Python's s[:n]
Prefix(s, n) ==
    IF n >= 0 THEN SubSeq(s, 1, Min(n, Len(s)))
    ELSE SubSeq(s, 1, Max(Len(s) + n, 0))

----------------------------------------------------------------------------
(* The inputs: what the API returns and what the endpoint registry holds *)

Fields == {"name", "url", "id"}
FieldOrder == <<"name", "url", "id">>

Chars == {"x"}
Strs == UNION {[1..n -> Chars] : n \in 0..MaxLen}

\* a fetched JSON object: some of the fields, each with a string value
Entries ==
    UNION {
        LET ks == SelectSeq(FieldOrder, LAMBDA f : f \in K)
        IN {[i \in DOMAIN ks |-> <<ks[i], v[i]>>] : v \in [DOMAIN ks -> Strs]}
        : K \in SUBSET Fields}

RECURSIVE Cells(_)
Cells(body) == IF body = <<>> THEN 0 ELSE Len(Head(body)) + Cells(Tail(body))

Bodies == {b \in UNION {[1..n -> Entries] : n \in 0..MaxRecs} : Cells(b) <= MaxCells}

\* what os.get_terminal_size() gives: <<columns>>, or <<>> for the OSError
Terminals == {<<>>} \cup {<<w>> : w \in 0..MaxWidth}

\* the row limits a caller passes
Limits == 0..MaxLimit \cup {DefaultLimit}

\* random.choice(range(255)), as far as the model tells colours apart
Palette == 0..(NumColors - 1)

\* endpoints.register (usrse/main/endpoints.py): name -> descriptor
Register ==
    [people |-> [title |-> "People", emoji |-> "wave",
                 skip_list |-> {}, truncate_list |-> {}],
     jobs   |-> [title |-> "Jobs", emoji |-> "briefcase",
                 skip_list |-> {"id"}, truncate_list |-> {"url"}],
     events |-> [title |-> "Events", emoji |-> "calendar",
                 skip_list |-> {}, truncate_list |-> {"name", "url", "id"}],
     links  |-> [title |-> "Links", emoji |-> "link",
                 skip_list |-> {"url", "id"}, truncate_list |-> {"url", "id"}]]

Names == DOMAIN Register
UnknownNames == {"nope"}

\* Endpoint.order(records): a display order of the same records
order(records) == Permutations_(records)

\* the status codes the API answers with
StatusCodes == {200, 404}
\* the body of an error response
ErrorText == <<"o", "o", "p", "s">>

\* a requests.Response has no attribute "txt"
ResponseAttrs == {"status_code", "text", "json", "url", "headers"}
\* a Result has no attribute "title": __init__ sets these three
ResultAttrs == {"endpoint", "data", "max_widths"}

----------------------------------------------------------------------------
(* Result.ensure_complete *)

\* fields: the union of the keys of all entries
all_fields(entries) == UNION {Keys(entries[i]) : i \in DOMAIN entries}

\* a fill that writes a placeholder instead of the empty string
fill_missing_placeholder(entry, field) ==
    IF field \notin Keys(entry) THEN Append(entry, <<field, <<"-">>>>) ELSE entry

\* if field not in entry: entry[field] = ""
fill_missing(entry, field) ==
    IF field \notin Keys(entry) THEN Append(entry, <<field, EmptyStr>>) ELSE entry

\* an update with the comparison the wrong way round
track_width_flipped(mw, field, n) ==
    IF field \notin DOMAIN mw THEN mw @@ (field :> n)
    ELSE IF mw[field] > n THEN [mw EXCEPT ![field] = n]
    ELSE mw

\* the max_widths update for a field of the truncate list, n = len(entry[field])
track_width(mw, field, n) ==
    IF field \notin DOMAIN mw THEN mw @@ (field :> n)
    ELSE IF mw[field] < n THEN [mw EXCEPT ![field] = n]
    ELSE mw

\* the body of the inner loop, for one field of one entry
complete_field(st, field, truncate_list) ==
    LET entry == fill_missing(st.entry, field)
    IN [entry |-> entry,
        mw    |-> IF field \in truncate_list
                  THEN track_width(st.mw, field, Len(Get_(entry, field)))
                  ELSE st.mw]

\* the inner loop: the fields in the iteration order of the set `fields`
RECURSIVE complete_entry(_, _, _)
complete_entry(st, fields, truncate_list) ==
    IF fields = <<>> THEN st
    ELSE complete_entry(complete_field(st, Head(fields), truncate_list),
                        Tail(fields), truncate_list)

\* the outer loop: entries[1..n] completed, max_widths carried along
RECURSIVE ensure_complete(_, _, _, _)
ensure_complete(entries, n, fields, truncate_list) ==
    IF n = 0 THEN [data |-> <<>>, mw |-> <<>>]
    ELSE LET before == ensure_complete(entries, n - 1, fields, truncate_list)
             st == complete_entry([entry |-> entries[n], mw |-> before.mw],
                                  fields, truncate_list)
         IN [data |-> Append(before.data, st.entry), mw |-> st.mw]

----------------------------------------------------------------------------
(* Result.table_columns, Result.available_width, Result.table_rows *)

\* the keys of the first record that are not in the skip list, in its order;
\* self.data[0] raises on a Result without records
table_columns(d, skip_list) ==
    IF d = <<>> THEN [exc |-> "LookupError", ret |-> <<>>]
    ELSE [exc |-> "none",
          ret |-> SelectSeq(KeyList(d[1]), LAMBDA column : column \notin skip_list)]

\* os.get_terminal_size().columns, 120 on OSError
surface_width(terminal) == IF terminal = <<>> THEN DefaultWidth ELSE terminal[1]

\* the loop over max_widths.items(): updated = updated - needed
RECURSIVE reserved(_, _)
reserved(mw, keys) ==
    IF keys = {} THEN 0
    ELSE LET k == CHOOSE k \in keys : TRUE
         IN mw[k] + reserved(mw, keys \ {k})

available_width(columns, mw, terminal) ==
    LET width == surface_width(terminal)
        updated == width - reserved(mw, DOMAIN mw)
        share == Len(columns) - Cardinality(DOMAIN mw)
    IN IF Len(columns) = 0
       THEN [exc |-> "ZeroDivisionError", ret |-> 0, warnings |-> 0]
       ELSE IF updated < 0
       THEN [exc |-> "none", ret |-> IntDiv(width, Len(columns)), warnings |-> 1]
       ELSE IF share = 0
       THEN [exc |-> "ZeroDivisionError", ret |-> 0, warnings |-> 0]
       ELSE [exc |-> "none", ret |-> IntDiv(updated, share), warnings |-> 0]

\* one cell of a row
table_cell(content, column, column_width, truncate_list) ==
    IF /\ content # EmptyStr
       /\ Len(content) > column_width
       /\ column \notin truncate_list
    THEN Prefix(content, column_width) \o Ellipsis
    ELSE content

\* rows i..len(data) of the generator; i counts from 1, enumerate() from 0
RECURSIVE rows_from(_, _, _, _, _, _)
rows_from(i, d, columns, limit, column_width, truncate_list) ==
    IF i > Len(d) THEN <<>>
    ELSE IF limit # 0 /\ i - 1 > limit THEN <<>>
    ELSE <<[j \in DOMAIN columns |->
              table_cell(Get_(d[i], columns[j]), columns[j], column_width,
                         truncate_list)]>>
         \o rows_from(i + 1, d, columns, limit, column_width, truncate_list)

\* everything the generator yields, and the exception that ends it if any
table_rows(d, columns, limit, mw, terminal, truncate_list) ==
    LET w == available_width(columns, mw, terminal)
    IN IF w.exc # "none"
       THEN [exc |-> w.exc, ret |-> <<>>, warnings |-> w.warnings, column_width |-> 0]
       ELSE [exc |-> "none",
             ret |-> rows_from(1, d, columns, limit, w.ret, truncate_list),
             warnings |-> w.warnings, column_width |-> w.ret]

\* the colour loop of table and table_live: seen_colors stays empty, so the
\* first draw is kept
seen_colors == <<>>
column_colors(columns) ==
    {cs \in [DOMAIN columns -> Palette] :
        \A j \in DOMAIN columns : cs[j] \notin Range(seen_colors)}

----------------------------------------------------------------------------
(* The state *)

NoOut == [op |-> "none"]

Init ==
    /\ pc = "start"
    /\ endpoint = [title |-> "", emoji |-> "", skip_list |-> {}, truncate_list |-> {}]
    /\ ordered = <<>>
    /\ data = <<>>
    /\ max_widths = <<>>
    /\ file = [written |-> FALSE, content |-> <<>>]
    /\ out = NoOut

\* Result.__init__(data, endpoint); json is the parsed body, null included
Construct(json, ep) ==
    \E recs \in order(IF json.null THEN <<>> ELSE json.records) :
    \E fields \in Orders(all_fields(recs)) :
        LET done == ensure_complete(recs, Len(recs), fields, ep.truncate_list)
        IN /\ endpoint' = ep
           /\ ordered' = recs
           /\ data' = done.data
           /\ max_widths' = done.mw

\* Client.get(name)
Get ==
    /\ pc = "start"
    /\ \E name \in Names \cup UnknownNames :
         IF name \notin Names
         THEN \* logger.exit: not a known endpoint
              /\ pc' = "exited"
              /\ out' = [op |-> "get", exc |-> "SystemExit", status |-> 0,
                         message |-> <<"not a known endpoint">>]
              /\ UNCHANGED <<endpoint, ordered, data, max_widths, file>>
         ELSE \E status \in StatusCodes :
              IF status # 200
              THEN \* sys.exit("Issue retrieving ..." % (endpoint.url, result.txt))
                   /\ pc' = "exited"
                   /\ out' = IF "txt" \in ResponseAttrs
                             THEN [op |-> "get", exc |-> "SystemExit", status |-> status,
                                   message |-> <<"Issue retrieving", ErrorText>>]
                             ELSE [op |-> "get", exc |-> "AttributeError", status |-> status,
                                   message |-> <<"'Response' object has no attribute 'txt'">>]
                   /\ UNCHANGED <<endpoint, ordered, data, max_widths, file>>
              ELSE \E json \in {[null |-> TRUE, records |-> <<>>]}
                              \cup {[null |-> FALSE, records |-> b] : b \in Bodies} :
                   /\ Construct(json, Register[name])
                   /\ pc' = "ready"
                   /\ out' = [op |-> "get", exc |-> "none", status |-> status,
                              message |-> <<>>]
                   /\ UNCHANGED file

\* the column list a renderer passes on: table_columns(), none when it raised
Columns == table_columns(data, endpoint.skip_list).ret

\* Result.table_columns()
TableColumns ==
    /\ pc = "ready"
    /\ LET c == table_columns(data, endpoint.skip_list)
       IN out' = [op |-> "table_columns", exc |-> c.exc, ret |-> c.ret]
    /\ pc' = "done"
    /\ UNCHANGED <<endpoint, ordered, data, max_widths, file>>

\* Result.available_width(columns)
AvailableWidth ==
    /\ pc = "ready"
    /\ \E terminal \in Terminals :
         LET w == available_width(Columns, max_widths, terminal)
         IN out' = [op |-> "available_width", exc |-> w.exc, ret |-> w.ret,
                    warnings |-> w.warnings, columns |-> Columns,
                    width |-> surface_width(terminal)]
    /\ pc' = "done"
    /\ UNCHANGED <<endpoint, ordered, data, max_widths, file>>

\* Result.table_rows(columns, limit), run to its end
TableRows ==
    /\ pc = "ready"
    /\ \E terminal \in Terminals, limit \in Limits :
         LET r == table_rows(data, Columns, limit, max_widths, terminal,
                             endpoint.truncate_list)
         IN out' = [op |-> "table_rows", exc |-> r.exc, ret |-> r.ret,
                    warnings |-> r.warnings, columns |-> Columns,
                    column_width |-> r.column_width, limit |-> limit]
    /\ pc' = "done"
    /\ UNCHANGED <<endpoint, ordered, data, max_widths, file>>

\* what table and table_live build: the columns with their colours, then the rows
render(op, title, terminal, limit, colors) ==
    LET c == table_columns(data, endpoint.skip_list)
        r == table_rows(data, c.ret, limit, max_widths, terminal,
                        endpoint.truncate_list)
    IN IF c.exc # "none"
       THEN [op |-> op, exc |-> c.exc,
             title |-> IF op = "table" THEN title ELSE <<>>,
             columns |-> <<>>, colors |-> <<>>, rows |-> <<>>]
       ELSE [op |-> op, exc |-> r.exc, title |-> title,
             columns |-> c.ret, colors |-> colors, rows |-> r.ret]

\* Result.table(limit)
Table ==
    /\ pc = "ready"
    /\ \E terminal \in Terminals, limit \in Limits, colors \in column_colors(Columns) :
         out' = render("table", <<endpoint.title>>, terminal, limit, colors)
    /\ pc' = "done"
    /\ UNCHANGED <<endpoint, ordered, data, max_widths, file>>

\* Result.table_live(limit, pause), all its steps
TableLive ==
    /\ pc = "ready"
    /\ \E terminal \in Terminals, limit \in Limits, colors \in column_colors(Columns) :
         out' = render("table_live", <<endpoint.emoji, endpoint.title, endpoint.emoji>>,
                       terminal, limit, colors)
    /\ pc' = "done"
    /\ UNCHANGED <<endpoint, ordered, data, max_widths, file>>

\* Result.to_dict()
ToDict ==
    /\ pc = "ready"
    /\ out' = [op |-> "to_dict", exc |-> "none", ret |-> data]
    /\ pc' = "done"
    /\ UNCHANGED <<endpoint, ordered, data, max_widths, file>>

\* Result.save(outfile): the log line reads self.title before anything is written
Save ==
    /\ pc = "ready"
    /\ IF "title" \in ResultAttrs
       THEN /\ file' = [written |-> TRUE, content |-> data]
            /\ out' = [op |-> "save", exc |-> "none"]
       ELSE /\ file' = file
            /\ out' = [op |-> "save", exc |-> "AttributeError"]
    /\ pc' = "done"
    /\ UNCHANGED <<endpoint, ordered, data, max_widths>>

Next ==
    \/ Get
    \/ TableColumns
    \/ AvailableWidth
    \/ TableRows
    \/ Table
    \/ TableLive
    \/ ToDict
    \/ Save

Spec == Init /\ [][Next]_vars

\* construction alone: Client.get and the Result it builds
NextConstruct == Get

SpecConstruct == Init /\ [][NextConstruct]_vars

----------------------------------------------------------------------------
(* The claims *)

\* the keys of all the fetched records
InputKeys == UNION {Keys(ordered[i]) : i \in DOMAIN ordered}

\* C1: after construction every record of Result.data has the same key set,
\* the union of the keys of all input records; a key the record lacked has
\* the value "" and a key it had keeps its value.
C1_KeyUniform ==
    pc \in {"ready", "done"} =>
        /\ Len(data) = Len(ordered)
        /\ \A i \in DOMAIN data :
             /\ Keys(data[i]) = InputKeys
             /\ Len(data[i]) = Cardinality(InputKeys)
             /\ \A k \in InputKeys :
                  Get_(data[i], k) = IF k \in Keys(ordered[i])
                                     THEN Get_(ordered[i], k)
                                     ELSE EmptyStr

\* a Result of two records with different keys, one with a non-empty value
\* the other lacks
C1_Witness ==
    /\ pc = "ready"
    /\ Len(data) = 2
    /\ \E k \in InputKeys :
         /\ k \in Keys(ordered[1]) /\ Get_(ordered[1], k) # EmptyStr
         /\ k \notin Keys(ordered[2])
    /\ \E k \in InputKeys : k \notin Keys(ordered[1])

\* C2: a Result of zero records is built without error, table_columns()
\* returns the empty list and table_rows yields nothing, none of them raising.
C2_EmptyResult ==
    (pc \in {"ready", "done"} /\ data = <<>>) =>
        /\ out.op = "get" => out.exc = "none"
        /\ out.op = "table_columns" => (out.exc = "none" /\ out.ret = <<>>)
        /\ out.op = "table_rows" => (out.exc = "none" /\ out.ret = <<>>)

\* C3: available_width never returns a negative number; when the reserved
\* widths exceed the surface width it returns surface_width / len(columns)
\* and warns exactly once.  (Stated for a non-empty column list.)
C3_WidthNonNegative ==
    (out.op = "available_width" /\ out.columns # <<>>) =>
        /\ out.exc = "none" => out.ret >= 0
        /\ reserved(max_widths, DOMAIN max_widths) > out.width =>
             /\ out.exc = "none"
             /\ out.ret = out.width \div Len(out.columns)
             /\ out.warnings = 1

\* C4: with as many displayed columns as max_widths entries and the reserved
\* widths fitting the surface, available_width returns a width.
C4_NoDivisionByZero ==
    (/\ out.op = "available_width"
     /\ out.columns # <<>>
     /\ Len(out.columns) = Cardinality(DOMAIN max_widths)
     /\ reserved(max_widths, DOMAIN max_widths) <= out.width) =>
        /\ out.exc = "none"
        /\ out.ret >= 0

\* C5: table_rows yields rows in the stored order, at most limit + 1 of them
\* when the Result has more than limit records, and exactly len(data) when
\* len(data) <= limit.  (Stated for a non-empty column list and a limit of
\* at least 1.)
C5_RowCount ==
    (out.op = "table_rows" /\ out.columns # <<>> /\ out.limit >= 1) =>
        /\ Len(out.ret) <= Len(data)
        /\ \A i \in DOMAIN out.ret : \A j \in DOMAIN out.columns :
             out.ret[i][j] \in {Get_(data[i], out.columns[j]),
                                Prefix(Get_(data[i], out.columns[j]),
                                       out.column_width) \o Ellipsis}
        /\ Len(data) > out.limit => Len(out.ret) <= out.limit + 1
        /\ Len(data) <= out.limit => Len(out.ret) = Len(data)

\* C6: in every yielded row a cell outside the truncate list that is longer
\* than the column width is cut to exactly column_width characters followed
\* by "..."; every other cell is yielded as it is.  (An empty value counts
\* as not longer than any width.)
C6_Truncation ==
    out.op = "table_rows" =>
        \A i \in DOMAIN out.ret : \A j \in DOMAIN out.columns :
            LET column == out.columns[j]
                content == Get_(data[i], column)
                cell == out.ret[i][j]
            IN IF /\ column \notin endpoint.truncate_list
                  /\ content # EmptyStr
                  /\ Len(content) > out.column_width
               THEN /\ Len(cell) = out.column_width + Len(Ellipsis)
                    /\ cell = SubSeq(content, 1, out.column_width) \o Ellipsis
               ELSE cell = content

\* C7: in table and table_live no two columns of one table share a colour.
C7_DistinctColors ==
    out.op \in {"table", "table_live"} =>
        \A i, j \in DOMAIN out.colors : i # j => out.colors[i] # out.colors[j]

\* C8: save(path) completes and the file read back equals to_dict(); to_dict()
\* returns the normalised records.
C8_SaveRoundTrip ==
    /\ out.op = "save" =>
         /\ out.exc = "none"
         /\ file.written
         /\ file.content = data
    /\ out.op = "to_dict" => (out.exc = "none" /\ out.ret = data)

\* C9: max_widths holds exactly the truncate-list fields that appear in some
\* input record, each with the longest length of that field over the
\* normalised records.
C9_MaxWidths ==
    pc \in {"ready", "done"} =>
        /\ DOMAIN max_widths = endpoint.truncate_list \cap InputKeys
        /\ \A f \in DOMAIN max_widths :
             /\ \A i \in DOMAIN data : Len(Get_(data[i], f)) <= max_widths[f]
             /\ \E i \in DOMAIN data : Len(Get_(data[i], f)) = max_widths[f]

\* a truncate-list field whose longest value comes first and which a later
\* record lacks, next to a field outside the truncate list
C9_Witness ==
    /\ pc = "ready"
    /\ Len(data) = 2
    /\ InputKeys \ endpoint.truncate_list # {}
    /\ \E f \in DOMAIN max_widths :
         /\ f \in Keys(ordered[1]) /\ f \notin Keys(ordered[2])
         /\ max_widths[f] = Len(Get_(ordered[1], f))
         /\ max_widths[f] > 0

\* C10: a GET answered with a status other than 200 ends in a fatal error
\* whose message includes the response body, and no Result is returned.
C10_FatalWithBody ==
    (out.op = "get" /\ out.status \notin {0, 200}) =>
        /\ pc = "exited"
        /\ out.exc = "SystemExit"
        /\ ErrorText \in Range(out.message)

====
